---- MODULE Spec2Model ----
(***************************************************************************)
(* Model of pytorch_lightning/callbacks/timer.py: the Timer callback.      *)
(*                                                                         *)
(* The model follows the Timer and the Trainer (the host) of one process of *)
(* a training job, rank 1.  The other processes of the job run the same    *)
(* code with clocks and start times of their own: they appear where the    *)
(* timer meets them, in the cross-process reduction, as the local          *)
(* decisions they hand in.  Time is counted in whole seconds;              *)
(* datetime.now() reads the variable now.                                  *)
(***************************************************************************)
EXTENDS Integers, Sequences, FiniteSets, TLC

(* ------------------------------ bounds --------------------------------- *)
\* number of processes of a multi-process job
NProcs == 2
\* largest value the wall clock takes
MaxTime == 3
\* largest elapsed time in a mapping handed to on_load_checkpoint
MaxOffset == 2

Procs == 1..NProcs
Peers == Procs \ {1}

(* ------------------------- values of the program ----------------------- *)
\* Python's None and a present value, for an attribute that may be None
None == <<>>
Some(v) == <<v>>
Val(o) == o[1]

\* timedelta(): the zero time span
timedelta0 == 0

\* Timer.INTERVAL_CHOICES
INTERVAL_CHOICES == {"epoch", "step"}

\* a checkpoint mapping: a function whose domain is the set of its keys
EmptyDict == [k \in {} |-> 0]
StateDict(T) == [k \in {"time_elapsed"} |-> T]
\* dict.get(key, default)
DictGet(d, key, default) == IF key \in DOMAIN d THEN d[key] ELSE default

(* --------------------- datetime.strptime("%H:%M:%S") ------------------- *)
Digits == <<"0", "1", "2", "3", "4", "5", "6", "7", "8", "9">>
IsDigit(c) == \E i \in 1..Len(Digits) : Digits[i] = c
DigitVal(c) == (CHOOSE i \in 1..Len(Digits) : Digits[i] = c) - 1

RECURSIVE LStrip(_)
LStrip(s) == IF s # <<>> /\ Head(s) = " " THEN LStrip(Tail(s)) ELSE s
RECURSIVE RStrip(_)
RStrip(s) ==
    IF s # <<>> /\ s[Len(s)] = " " THEN RStrip(SubSeq(s, 1, Len(s) - 1)) ELSE s
\* str.strip()
Strip(s) == LStrip(RStrip(s))

\* the fields of s between the colons
RECURSIVE SplitColon(_, _, _)
SplitColon(s, cur, acc) ==
    IF s = <<>> THEN Append(acc, cur)
    ELSE IF Head(s) = ":" THEN SplitColon(Tail(s), <<>>, Append(acc, cur))
    ELSE SplitColon(Tail(s), Append(cur, Head(s)), acc)

\* a field of one or two digits
IsField(f) == Len(f) \in {1, 2} /\ \A i \in 1..Len(f) : IsDigit(f[i])
FieldVal(f) ==
    IF Len(f) = 1 THEN DigitVal(f[1]) ELSE 10 * DigitVal(f[1]) + DigitVal(f[2])

\* strptime(s, "%H:%M:%S") succeeds: three fields, hour 0..23, minute and
\* second 0..59; everything else raises ValueError
StrptimeOk(s) ==
    LET fs == SplitColon(s, <<>>, <<>>) IN
    /\ Len(fs) = 3
    /\ \A i \in 1..3 : IsField(fs[i])
    /\ FieldVal(fs[1]) <= 23
    /\ FieldVal(fs[2]) <= 59
    /\ FieldVal(fs[3]) <= 59

\* timedelta(hours=hms.hour, minutes=hms.minute, seconds=hms.second), in seconds
StrptimeSeconds(s) ==
    LET fs == SplitColon(s, <<>>, <<>>) IN
    3600 * FieldVal(fs[1]) + 60 * FieldVal(fs[2]) + FieldVal(fs[3])

(* --------------------- arguments of the constructor -------------------- *)
\* a duration argument: a str (its characters) or a timedelta (its seconds)
StrArg(cs) == [kind |-> "str", chars |-> cs, secs |-> 0]
DeltaArg(n) == [kind |-> "timedelta", chars |-> <<>>, secs |-> n]

DurationArgs ==
    { StrArg(<<"0", "0", ":", "0", "0", ":", "0", "1">>),
      StrArg(<<" ", "0", ":", "0", ":", "2", " ">>),
      StrArg(<<"2", "4", ":", "0", "0", ":", "0", "0">>),
      StrArg(<<"1", ":", "6", "0">>),
      DeltaArg(2),
      DeltaArg(0) }

IntervalArgs == {"epoch", "step", "bogus"}

\* datetime.strptime(duration.strip(), "%H:%M:%S") of each str argument,
\* worked out once: whether it succeeds, and the seconds of the timedelta
\* built from it
Strptime ==
    [d \in {a \in DurationArgs : a.kind = "str"} |->
        IF StrptimeOk(Strip(d.chars))
        THEN [ok |-> TRUE, secs |-> StrptimeSeconds(Strip(d.chars))]
        ELSE [ok |-> FALSE, secs |-> 0]]

(* ------------------------------- state --------------------------------- *)
VARIABLES
    now,          \* the wall clock, what datetime.now() returns
    timer,        \* the Timer object: None when the constructor raised, else
                  \* Some of its attributes _duration, _interval, _start_time
                  \* and _offset
    exc,          \* the exception the constructor raised, or "none"
    should_stop,  \* trainer.should_stop
    plugin,       \* the host's training type: "single" process, or several
                  \* processes whose reduction is a logical "and" or "or"
    checkpoint,   \* what on_save_checkpoint last returned, as the host keeps
                  \* it, with the elapsed time of the timer at that call and
                  \* whether the clock has advanced since
    last_load,    \* history: the mapping last passed to on_load_checkpoint of
                  \* this timer, or None
    resume,       \* history of a save/resume cycle of this timer
    last_event    \* history: the step taken last

vars == << now, timer, exc, should_stop, plugin, checkpoint, last_load, resume,
           last_event >>

(* ------------------------------ the Timer ------------------------------ *)
_duration == Val(timer).duration
_interval == Val(timer).interval
_start_time == Val(timer).start_time
_offset == Val(timer).offset

\* time_elapsed with the subtraction the wrong way round
TimeElapsedOf_reversed(t, clock) ==
    IF t.start_time = None
    THEN t.offset
    ELSE Val(t.start_time) - clock + t.offset

\* time_elapsed that forgets the offset once the timer runs
TimeElapsedOf_noOffset(t, clock) ==
    IF t.start_time = None
    THEN t.offset
    ELSE clock - Val(t.start_time)

\* Timer.time_elapsed of a timer with attributes t, read at clock value clock
TimeElapsedOf(t, clock) ==
    IF t.start_time = None
    THEN t.offset
    ELSE clock - Val(t.start_time) + t.offset

\* Timer.time_elapsed
time_elapsed == TimeElapsedOf(Val(timer), now)

\* time_remaining with the subtraction the wrong way round
time_remaining_reversed == time_elapsed - _duration

\* Timer.time_remaining
time_remaining == _duration - time_elapsed

\* Timer.__init__, the conversion of the duration argument
ParseDuration(d) ==
    IF d.kind = "str" THEN Strptime[d].secs ELSE d.secs

\* a constructor that does not validate the interval
InitRaises_unchecked(d, intv) ==
    IF d.kind = "str" /\ ~Strptime[d].ok THEN "ValueError" ELSE "none"

\* Timer.__init__, the exception it raises ("none" when it returns)
InitRaises(d, intv) ==
    IF d.kind = "str" /\ ~Strptime[d].ok THEN "ValueError"
    ELSE IF intv \notin INTERVAL_CHOICES THEN "MisconfigurationException"
    ELSE "none"

\* Timer.__init__, the attributes of the object it returns
NewTimer(d, intv) ==
    [duration |-> ParseDuration(d), interval |-> intv,
     start_time |-> None, offset |-> timedelta0]

\* on_save_checkpoint that saves the offset in place of the elapsed time
SavedState_offsetOnly == StateDict(_offset)

\* the mapping on_save_checkpoint returns
SavedState == StateDict(time_elapsed)

\* on_load_checkpoint that keeps the old offset when the key is absent
LoadedOffset_keep(callback_state) == DictGet(callback_state, "time_elapsed", _offset)

\* the offset on_load_checkpoint restores
LoadedOffset(callback_state) == DictGet(callback_state, "time_elapsed", timedelta0)

\* both handlers testing for the same interval mode
SkipsCheck_same(op) ==
    op \in {"on_train_batch_end", "on_train_epoch_end"} /\ _interval # "step"

\* on_train_batch_end, on_train_epoch_end: the handler of event op returns
\* at once
SkipsCheck(op) ==
    \/ op = "on_train_batch_end" /\ _interval # "step"
    \/ op = "on_train_epoch_end" /\ _interval # "epoch"

\* a strict comparison in place of >=
LocalDecision_strict == time_elapsed > _duration

\* the comparison the wrong way round
LocalDecision_inverted == time_elapsed <= _duration

\* _check_time_remaining, first statement: the local decision
LocalDecision == time_elapsed >= _duration

\* the processes that take part in the reduction
World == IF plugin = "single" THEN {1} ELSE Procs

\* trainer.training_type_plugin.reduce_boolean_decision over the local
\* decisions d of the processes: the decision itself in a single process, a
\* logical AND or OR over the processes otherwise
reduce_boolean_decision(d) ==
    CASE plugin = "single" -> d[1]
      [] plugin = "and" -> \A q \in World : d[q]
      [] plugin = "or" -> \E q \in World : d[q]

\* carrying on with the local decision, the outcome of the reduction dropped
StopSignal_local(local, reduced) == local

\* _check_time_remaining, second statement: the value a process carries on
\* with, given its local decision and the outcome of the reduction
StopSignal(local, reduced) == reduced

\* a plain assignment of the signal to the flag
StopFlagAfter_assigned(old, signal) == signal

\* _check_time_remaining, third statement
StopFlagAfter(old, signal) == old \/ signal

(* ---------------------------- history records -------------------------- *)
\* a reduction: the local decision of each process, the reduced decision, the
\* value each process ORs into its flag, and this process's flag before
NoRound == [decision |-> [q \in {1} |-> FALSE],
            reduced  |-> FALSE,
            signal   |-> [q \in {1} |-> FALSE],
            before   |-> FALSE]

\* the step taken last: the operation, the mapping passed to
\* on_load_checkpoint, the constructor's arguments, whether the handler
\* called the reduction, that reduction, and the value a read of
\* time_elapsed or time_remaining returned
NoEvent == [op |-> "tick", arg |-> EmptyDict, init |-> <<>>,
            called |-> FALSE, round |-> NoRound, result |-> 0]

\* a save/resume cycle: T, the elapsed time at which the checkpoint loaded
\* into the timer (its start time still None) was saved; gap, whether the
\* clock advanced between that save and the load; s, the clock at the
\* on_train_start that followed the load
NoResume == [T |-> None, gap |-> FALSE, s |-> None]

(* ------------------------------- Init ---------------------------------- *)
Init ==
    /\ now = 0
    /\ \E d \in DurationArgs, intv \in IntervalArgs :
        /\ InitRaises(d, intv) = "none"
        /\ timer = Some(NewTimer(d, intv))
    /\ exc = "none"
    /\ should_stop = FALSE
    /\ plugin \in {"single", "and", "or"}
    /\ checkpoint = None
    /\ last_load = None
    /\ resume = NoResume
    /\ last_event = [NoEvent EXCEPT !.op = "start"]

(* ------------------------------ actions -------------------------------- *)
\* A job starts: the script calls Timer(duration, interval) and hands the
\* timer to a new Trainer.  When the constructor raises there is no timer.
Construct(d, intv) ==
    /\ exc' = InitRaises(d, intv)
    /\ timer' = IF InitRaises(d, intv) = "none"
                THEN Some(NewTimer(d, intv))
                ELSE None
    /\ should_stop' = FALSE
    /\ last_load' = None
    /\ resume' = NoResume
    /\ last_event' = [NoEvent EXCEPT !.op = "__init__", !.init = <<d, intv>>]
    /\ UNCHANGED << now, plugin, checkpoint >>

\* Timer.on_train_start
on_train_start ==
    /\ timer # None
    /\ timer' = Some([Val(timer) EXCEPT !.start_time = Some(now)])
    /\ resume' = IF resume.T # None /\ resume.s = None
                 THEN [resume EXCEPT !.s = Some(now)]
                 ELSE NoResume
    /\ last_event' = [NoEvent EXCEPT !.op = "on_train_start"]
    /\ UNCHANGED << now, exc, should_stop, plugin, checkpoint, last_load >>

\* _check_time_remaining that enters the reduction only when the local
\* decision is true
_check_time_remaining_lazy(op, peers) ==
    LET d == [q \in World |-> IF q = 1 THEN LocalDecision ELSE peers[q]]
        reduced == reduce_boolean_decision(d)
        signal == [q \in World |-> StopSignal(d[q], reduced)]
    IN  IF LocalDecision
        THEN /\ should_stop' = StopFlagAfter(should_stop, signal[1])
             /\ last_event' = [NoEvent EXCEPT
                    !.op = op, !.called = TRUE,
                    !.round = [decision |-> d, reduced |-> reduced,
                               signal |-> signal, before |-> should_stop]]
        ELSE /\ UNCHANGED should_stop
             /\ last_event' = [NoEvent EXCEPT !.op = op]

\* Timer._check_time_remaining, called from the handler of event op; peers
\* are the local decisions the other processes hand to the reduction
_check_time_remaining(op, peers) ==
    LET d == [q \in World |-> IF q = 1 THEN LocalDecision ELSE peers[q]]
        reduced == reduce_boolean_decision(d)
        signal == [q \in World |-> StopSignal(d[q], reduced)]
    IN  /\ should_stop' = StopFlagAfter(should_stop, signal[1])
        /\ last_event' = [NoEvent EXCEPT
                !.op = op, !.called = TRUE,
                !.round = [decision |-> d, reduced |-> reduced,
                           signal |-> signal, before |-> should_stop]]

\* Timer.on_train_batch_end and Timer.on_train_epoch_end
OnIntervalEvent(op, peers) ==
    /\ timer # None
    /\ IF SkipsCheck(op)
       THEN /\ last_event' = [NoEvent EXCEPT !.op = op]
            /\ UNCHANGED should_stop
       ELSE _check_time_remaining(op, peers)
    /\ UNCHANGED << now, timer, exc, plugin, checkpoint, last_load, resume >>

\* the local decisions the other processes may hand in
PeerDecisions == [World \ {1} -> BOOLEAN]

on_train_batch_end == \E peers \in PeerDecisions :
    OnIntervalEvent("on_train_batch_end", peers)

on_train_epoch_end == \E peers \in PeerDecisions :
    OnIntervalEvent("on_train_epoch_end", peers)

\* on_save_checkpoint that folds the elapsed time into the offset
on_save_checkpoint_folding ==
    /\ timer # None
    /\ checkpoint' = Some([state |-> SavedState, T |-> time_elapsed, aged |-> FALSE])
    /\ timer' = Some([Val(timer) EXCEPT !.offset = time_elapsed])
    /\ last_event' = [NoEvent EXCEPT !.op = "on_save_checkpoint"]
    /\ UNCHANGED << now, exc, should_stop, plugin, last_load, resume >>

\* Timer.on_save_checkpoint; the host keeps what it returns
on_save_checkpoint ==
    /\ timer # None
    /\ checkpoint' = Some([state |-> SavedState, T |-> time_elapsed, aged |-> FALSE])
    /\ last_event' = [NoEvent EXCEPT !.op = "on_save_checkpoint"]
    /\ UNCHANGED << now, timer, exc, should_stop, plugin, last_load, resume >>

\* a read of the property Timer.time_elapsed
read_time_elapsed ==
    /\ timer # None
    /\ last_event' = [NoEvent EXCEPT !.op = "time_elapsed", !.result = time_elapsed]
    /\ UNCHANGED << now, timer, exc, should_stop, plugin, checkpoint, last_load,
                    resume >>

\* a read of the property Timer.time_remaining
read_time_remaining ==
    /\ timer # None
    /\ last_event' = [NoEvent EXCEPT !.op = "time_remaining",
                                     !.result = time_remaining]
    /\ UNCHANGED << now, timer, exc, should_stop, plugin, checkpoint, last_load,
                    resume >>

\* the mappings the host passes to on_load_checkpoint
CallbackStates == {EmptyDict} \cup { StateDict(v) : v \in 0..MaxOffset }

\* Timer.on_load_checkpoint(callback_state)
on_load_checkpoint(callback_state) ==
    /\ timer # None
    /\ timer' = Some([Val(timer) EXCEPT !.offset = LoadedOffset(callback_state)])
    /\ last_load' = Some(callback_state)
    /\ resume' = IF /\ _start_time = None
                    /\ checkpoint # None
                    /\ callback_state = Val(checkpoint).state
                 THEN [T |-> Some(Val(checkpoint).T), gap |-> Val(checkpoint).aged, s |-> None]
                 ELSE NoResume
    /\ last_event' = [NoEvent EXCEPT !.op = "on_load_checkpoint",
                                     !.arg = callback_state]
    /\ UNCHANGED << now, exc, should_stop, plugin, checkpoint >>

\* the wall clock advances by a second
Tick ==
    /\ now < MaxTime
    /\ now' = now + 1
    /\ checkpoint' = IF checkpoint = None THEN None
                     ELSE Some([Val(checkpoint) EXCEPT !.aged = TRUE])
    /\ last_event' = NoEvent
    /\ UNCHANGED << timer, exc, should_stop, plugin, last_load, resume >>

Next ==
    \/ \E d \in DurationArgs, intv \in IntervalArgs : Construct(d, intv)
    \/ on_train_start
    \/ on_train_batch_end
    \/ on_train_epoch_end
    \/ on_save_checkpoint
    \/ read_time_elapsed
    \/ read_time_remaining
    \/ \E cs \in CallbackStates : on_load_checkpoint(cs)
    \/ Tick

Spec == Init /\ [][Next]_vars

(* ------------------------- shorthands of the claims -------------------- *)
IntervalEvents == {"on_train_batch_end", "on_train_epoch_end"}

\* the last step was the handler of the event that matches the interval mode
MatchingEventHandled ==
    /\ timer # None
    /\ \/ last_event.op = "on_train_batch_end" /\ _interval = "step"
       \/ last_event.op = "on_train_epoch_end" /\ _interval = "epoch"

\* the last step was the handler of the event that does not match it
NonMatchingEventHandled ==
    /\ timer # None
    /\ \/ last_event.op = "on_train_batch_end" /\ _interval = "epoch"
       \/ last_event.op = "on_train_epoch_end" /\ _interval = "step"

Started == timer # None /\ _start_time # None

\* every other process of the last reduction handed in a true decision
PeersReached ==
    \A q \in DOMAIN last_event.round.decision :
        q # 1 => last_event.round.decision[q]

(* -------------------------------- C1 ----------------------------------- *)
\* C1, as stated: after on_train_start, a matching-interval event handled
\* while elapsed time >= duration leaves should_stop true.
C1_Original ==
    (MatchingEventHandled /\ Started /\ time_elapsed >= _duration) => should_stop

\* C1, amended: after on_train_start, a matching-interval event handled while
\* elapsed time >= duration on this process and on every other process that
\* takes part in the reduction leaves should_stop true.
C1_StopWhenAllReached ==
    (MatchingEventHandled /\ Started /\ time_elapsed >= _duration /\ PeersReached)
        => should_stop

C1_Witness ==
    /\ MatchingEventHandled
    /\ Started
    /\ time_elapsed >= _duration
    /\ plugin = "and"
    /\ PeersReached
    /\ ~last_event.round.before
    /\ should_stop

(* -------------------------------- C2 ----------------------------------- *)
\* C2: the handler of a non-matching interval event leaves should_stop and the
\* timer's attributes as they were and does not call the reduction.
C2_NonMatchingNoCheck ==
    [][ ( /\ last_event'.op \in IntervalEvents
          /\ timer # None
          /\ \/ last_event'.op = "on_train_batch_end" /\ _interval = "epoch"
             \/ last_event'.op = "on_train_epoch_end" /\ _interval = "step" )
        => /\ timer' = timer
           /\ should_stop' = should_stop
           /\ ~last_event'.called
           /\ UNCHANGED << now, exc, plugin, checkpoint >> ]_vars

C2_Witness ==
    /\ NonMatchingEventHandled
    /\ Started
    /\ time_elapsed >= _duration
    /\ ~should_stop

(* -------------------------------- C3 ----------------------------------- *)
\* C3: a timer whose start time is None and into which the mapping returned by
\* on_save_checkpoint at elapsed time T was loaded has time_elapsed = T until
\* on_train_start is called, whatever the clock shows.
C3_RoundTrip ==
    (timer # None /\ resume.T # None /\ _start_time = None)
        => time_elapsed = Val(resume.T)

C3_Witness ==
    /\ timer # None
    /\ resume.T # None
    /\ _start_time = None
    /\ Val(resume.T) > 0
    /\ last_event.op = "tick"

(* -------------------------------- C4 ----------------------------------- *)
\* C4, as stated: once on_train_start has been called, no later event of the
\* timer (on_train_start, on_train_batch_end, on_train_epoch_end,
\* on_save_checkpoint, on_load_checkpoint) and no advance of the clock
\* decreases time_elapsed.
C4_Original ==
    [][ (Started /\ last_event'.op # "__init__" /\ now' >= now)
        => TimeElapsedOf(Val(timer'), now') >= time_elapsed ]_vars

\* C4, amended: once on_train_start has been called, time_elapsed never
\* decreases across advances of the clock and on_train_batch_end,
\* on_train_epoch_end and on_save_checkpoint events.
C4_Monotonic ==
    [][ ( /\ Started
          /\ last_event'.op \notin {"__init__", "on_train_start", "on_load_checkpoint"}
          /\ now' >= now )
        => TimeElapsedOf(Val(timer'), now') >= time_elapsed ]_vars

C4_Witness ==
    /\ Started
    /\ last_event.op = "tick"
    /\ time_elapsed > _offset
    /\ _offset > 0

(* -------------------------------- C5 ----------------------------------- *)
\* C5: after a checkpoint saved at elapsed time T was loaded into a timer
\* whose start time was None and on_train_start was then called at clock s,
\* time_elapsed = T + (now - s) at every later clock value.
C5_Continuity ==
    (timer # None /\ resume.T # None /\ resume.s # None)
        => time_elapsed = Val(resume.T) + (now - Val(resume.s))

C5_Witness ==
    /\ timer # None
    /\ resume.T # None
    /\ resume.s # None
    /\ Val(resume.T) > 0
    /\ resume.gap
    /\ now > Val(resume.s)

(* -------------------------------- C6 ----------------------------------- *)
\* C6: at a matching-interval event every process ORs the outcome of the
\* reduction into its flag, so all processes signal stop or none does.
C6_Agreement ==
    last_event.called =>
        LET r == last_event.round IN
        /\ \A q \in DOMAIN r.signal : r.signal[q] = r.reduced
        /\ should_stop = (r.before \/ r.reduced)

C6_Witness ==
    /\ last_event.called
    /\ plugin = "or"
    /\ \E q \in DOMAIN last_event.round.decision :
            last_event.round.decision[q] # last_event.round.decision[1]
    /\ \A q \in DOMAIN last_event.round.signal : last_event.round.signal[q]

(* -------------------------------- C7 ----------------------------------- *)
ConstructorCalled == last_event.op = "__init__"
ArgDuration == last_event.init[1]
ArgInterval == last_event.init[2]

\* a timedelta, or a str that strptime accepts
WellFormed(d) == d.kind = "timedelta" \/ StrptimeOk(Strip(d.chars))

\* C7, as stated: an interval outside "epoch", "step" makes the constructor
\* raise MisconfigurationException and produce no timer, for every duration
\* argument; "epoch" or "step" with a well-formed duration succeeds.
C7_Original ==
    ConstructorCalled =>
        /\ ArgInterval \notin {"epoch", "step"}
              => exc = "MisconfigurationException" /\ timer = None
        /\ (ArgInterval \in {"epoch", "step"} /\ WellFormed(ArgDuration))
              => exc = "none" /\ timer # None

\* C7, amended: the same for every well-formed duration argument; with a
\* malformed duration string the constructor raises the parsing error
\* (ValueError) whatever the interval, and produces no timer.
C7_IntervalValidated ==
    ConstructorCalled =>
        /\ (ArgInterval \notin {"epoch", "step"} /\ WellFormed(ArgDuration))
              => exc = "MisconfigurationException" /\ timer = None
        /\ ~WellFormed(ArgDuration)
              => exc = "ValueError" /\ timer = None
        /\ (ArgInterval \in {"epoch", "step"} /\ WellFormed(ArgDuration))
              => /\ exc = "none"
                 /\ timer # None
                 /\ _interval = ArgInterval
                 /\ _start_time = None
                 /\ _offset = 0

C7_Witness ==
    /\ ConstructorCalled
    /\ ArgInterval = "bogus"
    /\ ArgDuration.kind = "str"
    /\ WellFormed(ArgDuration)
    /\ exc = "MisconfigurationException"
    /\ timer = None

(* -------------------------------- C8 ----------------------------------- *)
\* C8: while the start time is None, time_elapsed is zero if nothing was
\* loaded, the time_elapsed entry of the mapping loaded last if it has one,
\* and zero if it has none, whatever the clock shows.
C8_ElapsedBeforeStart ==
    (timer # None /\ _start_time = None) =>
        time_elapsed =
            IF last_load = None THEN 0
            ELSE IF "time_elapsed" \in DOMAIN Val(last_load)
                 THEN Val(last_load)["time_elapsed"]
                 ELSE 0

C8_Witness ==
    /\ timer # None
    /\ _start_time = None
    /\ last_load # None
    /\ "time_elapsed" \in DOMAIN Val(last_load)
    /\ time_elapsed > 0
    /\ last_event.op = "tick"
    /\ now = MaxTime

(* -------------------------------- C9 ----------------------------------- *)
\* C9, as stated: the reduction is performed at those matching-interval
\* events where the local elapsed time has reached or exceeded the duration.
C9_Original ==
    (timer # None /\ last_event.called) => time_elapsed >= _duration

\* C9, amended: every matching-interval event performs the reduction, on the
\* local decision elapsed >= duration, whether or not that decision is true,
\* and ORs the reduced decision into should_stop.
C9_ReduceAlways ==
    MatchingEventHandled =>
        /\ last_event.called
        /\ last_event.round.decision[1] = (time_elapsed >= _duration)
        /\ should_stop = (last_event.round.before \/ last_event.round.reduced)

C9_Witness ==
    /\ MatchingEventHandled
    /\ last_event.called
    /\ time_elapsed < _duration
    /\ ~last_event.round.before
    /\ should_stop

ElapsedBefore ==
    IF _start_time = None THEN _offset ELSE _offset + (now - Val(_start_time))

\* C11: a read of time_elapsed or time_remaining and a call of
\* on_save_checkpoint leave the timer's attributes and should_stop unchanged;
\* the read of time_elapsed returns the elapsed time, the read of
\* time_remaining returns duration minus elapsed time, and the mapping
\* on_save_checkpoint returns holds the elapsed time under time_elapsed.
C11_ReadsPure ==
    [][ (last_event'.op \in {"time_elapsed", "time_remaining", "on_save_checkpoint"})
        => /\ timer' = timer
           /\ should_stop' = should_stop
           /\ last_event'.op = "time_elapsed"
                 => last_event'.result = ElapsedBefore
           /\ last_event'.op = "time_remaining"
                 => last_event'.result = _duration - ElapsedBefore
           /\ last_event'.op = "on_save_checkpoint"
                 => /\ checkpoint' # None
                    /\ DOMAIN Val(checkpoint').state = {"time_elapsed"}
                    /\ Val(checkpoint').state["time_elapsed"] = ElapsedBefore ]_vars

C11_Witness ==
    /\ Started
    /\ last_event.op = "time_remaining"
    /\ last_event.result < 0
    /\ _offset > 0
    /\ ~should_stop

(* -------------------------------- C12 ---------------------------------- *)
TimerEvents ==
    {"on_train_start", "on_train_batch_end", "on_train_epoch_end",
     "on_save_checkpoint", "on_load_checkpoint"}

\* C12: no event of the timer turns a true should_stop into false.
C12_NeverClears ==
    [][ (last_event'.op \in TimerEvents /\ should_stop) => should_stop' ]_vars

C12_Witness ==
    /\ MatchingEventHandled
    /\ last_event.called
    /\ last_event.round.before
    /\ ~last_event.round.reduced
    /\ time_elapsed < _duration
    /\ should_stop

(* -------------------------------- C13 ---------------------------------- *)
\* the step turns should_stop from false to true
FlagSet == ~should_stop /\ should_stop'

\* another process handed a true decision to the reduction of the step
PeerReachedInStep ==
    \E q \in DOMAIN last_event'.round.decision :
        q # 1 /\ last_event'.round.decision[q]

\* the flag is set only inside a matching-interval event whose reduced
\* decision is true, and not while every process is below the duration
SetOnlyWhenReached ==
    FlagSet =>
        /\ timer # None
        /\ \/ last_event'.op = "on_train_batch_end" /\ _interval = "step"
           \/ last_event'.op = "on_train_epoch_end" /\ _interval = "epoch"
        /\ last_event'.called
        /\ last_event'.round.reduced
        /\ ElapsedBefore >= _duration \/ PeerReachedInStep

\* C13, as stated: the flag is set only inside a matching-interval event
\* whose reduced decision is true, never while every process's elapsed time
\* is below the duration, and never before on_train_start unless a loaded
\* offset already reaches the duration (on this process, or on another one
\* whose decision is true).
C13_Original ==
    [][ /\ SetOnlyWhenReached
        /\ (FlagSet /\ timer # None /\ _start_time = None)
              => \/ last_load # None /\ _offset >= _duration
                 \/ PeerReachedInStep ]_vars

\* C13, amended: the same, but the offset that reaches the duration before
\* on_train_start need not be a loaded one: the zero offset of a new timer
\* reaches a duration of zero.
C13_NoPrematureStop ==
    [][ /\ SetOnlyWhenReached
        /\ (FlagSet /\ timer # None /\ _start_time = None)
              => _offset >= _duration \/ PeerReachedInStep ]_vars

C13_Witness ==
    /\ MatchingEventHandled
    /\ last_event.called
    /\ ~last_event.round.before
    /\ should_stop
    /\ _start_time = None
    /\ last_load # None
    /\ _duration > 0
    /\ _offset >= _duration
    /\ plugin = "single"

====
